---- MODULE Spec2Model ----
(***************************************************************************)
(* HandcraftedPolicy (adviser/services/policy/policy_handcrafted.py): the  *)
(* turn dispatcher choose_sys_act, the domain decision _next_action, the   *)
(* next-question selector and the inform builders, as a state machine over *)
(* the per-session fields of the policy object.                            *)
(***************************************************************************)
EXTENDS Integers, Sequences, FiniteSets, TLC

VARIABLES
    turns,                \* self.turns
    first_turn,           \* self.first_turn
    max_turns,            \* self.max_turns
    current_suggestions,  \* self.current_suggestions (list of rows)
    s_index,              \* self.s_index
    bs_in,                \* the belief state as handed to the decision
    beliefstate,          \* the same belief state object after the decision
    sys_act,              \* the SysAct returned (NoAct when none was returned)
    raised,               \* exception that ended the decision ("" when it returned)
    branch,               \* the branch of choose_sys_act that was taken
    path,                 \* the route taken inside that branch
    calls,                \* calls made to the domain during the decision
    results,              \* rows the domain returned to the query of the decision
    distance_duration,    \* the pair domain.distance_duration answered (<<>>: not asked)
    template,             \* a Template: its messages, special_cases and additions
    added,                \* the calls of add_inner_command made on it, with their outcome
    pre,                  \* the session fields as they were before the operation
    op                    \* last operation on the policy object

vars == <<turns, first_turn, max_turns, current_suggestions, s_index,
          bs_in, beliefstate, sys_act, raised, branch, path, calls, results,
          distance_duration, template, added, pre, op>>

----------------------------------------------------------------------------
(* Bounds of the model *)

\* the two configured turn budgets explored: a degenerate one and a working one
MinMaxTurns == 1
MaxMaxTurns == 5
\* decisions per session are capped at max_turns + ExtraTurns
ExtraTurns == 1
\* largest user-action set handed to the dispatcher in SpecDispatch
MaxActs == 3
\* most rows in a query result handed to the classifier in SpecSelector
MaxRows == 4
\* most attributes in a result row handed to the inform builder in SpecInform
MaxKeys == 5
\* most calls of add_inner_command on one template in SpecTemplate
MaxCommands == 4

----------------------------------------------------------------------------
(* Python values *)

None == "<None>"          \* Python None where a string is expected

Range(s) == {s[i] : i \in 1..Len(s)}

\* list.index / "in" on sequences
InSeq(x, s) == \E i \in 1..Len(s) : s[i] = x

\* an ordered mapping (dict) is a sequence of records [k |-> key, v |-> value]
Keys(d) == [i \in 1..Len(d) |-> d[i].k]

HasKey(d, key) == \E i \in 1..Len(d) : d[i].k = key

Lookup(d, key) == d[CHOOSE i \in 1..Len(d) : d[i].k = key].v

\* d[key] = value, keeping the position of an existing key
Put(d, key, value) ==
    IF HasKey(d, key)
    THEN [i \in 1..Len(d) |-> IF d[i].k = key THEN [k |-> key, v |-> value] ELSE d[i]]
    ELSE Append(d, [k |-> key, v |-> value])

----------------------------------------------------------------------------
(* UserActionType and SysActionType members used by the policy *)

Fillers == {"Thanks", "Bad", "Hello"}

MetaActs == {"Bad", "Bye", "Thanks", "NewDialogue", "Hello", "SelectDomain",
             "GiveRating", "WriteReview", "WrittenReview", "AskDistance",
             "InformStartPoint", "InformDistanceManner", "AskOpeningDay",
             "AskManner", "NegativeInform"}

DomainActs == {"Inform", "Request", "RequestAlternatives"}

UserActs == MetaActs \cup DomainActs

SysActionTypes == {"Welcome", "Bye", "RequestMore", "Bad", "GuideUser", "Request",
                   "InformByName", "InformByAlternatives", "ConfirmGiveRating",
                   "AskWriteReview", "ConfirmWriteReview", "AskStartPoint",
                   "AskDistanceManner", "InformDistance", "BadTravelManner",
                   "BadAddress", "InformOpeningDay", "InformManner", "WhatDoYouWant"}

----------------------------------------------------------------------------
(* SysAct: a type and an ordered mapping slot -> list of values.  A value  *)
(* is a string or a list of strings; both are kept as                      *)
(* [list |-> BOOLEAN, elems |-> sequence of strings].                      *)

Str(s) == [list |-> FALSE, elems |-> <<s>>]
Lst(l) == [list |-> TRUE, elems |-> l]

NoType == "<unset>"

\* SysAct()
NewSysAct == [type |-> NoType, slot_values |-> <<>>]

\* what the caller holds when the decision ended without returning
NoAct == [type |-> "<no action>", slot_values |-> <<>>]

\* SysAct.add_value(slot, value=None): the slot is created, a value that is
\* not None is appended
add_value(act, slot, value) ==
    LET d    == act.slot_values
        old  == IF HasKey(d, slot) THEN Lookup(d, slot) ELSE <<>>
        new  == IF value = None THEN old ELSE Append(old, Str(value))
    IN  [act EXCEPT !.slot_values = Put(d, slot, new)]

\* add_value with a list as the value (constraints[c])
add_list_value(act, slot, values) ==
    LET d    == act.slot_values
        old  == IF HasKey(d, slot) THEN Lookup(d, slot) ELSE <<>>
    IN  [act EXCEPT !.slot_values = Put(d, slot, Append(old, Lst(values)))]

\* SysAct.get_values(slot)
get_values(act, slot) ==
    IF HasKey(act.slot_values, slot) THEN Lookup(act.slot_values, slot) ELSE <<>>

SetType(act, t) == [act EXCEPT !.type = t]

----------------------------------------------------------------------------
(* The domain capability (JSONLookupDomain): a three-row store.  A row is  *)
(* an ordered mapping column -> string.                                    *)

\* domain.get_primary_key()
DomainKey == "name"

\* domain.get_system_requestable_slots(), in the canonical order
SystemRequestableSlots == <<"food", "parking_lot", "area", "wifi">>

\* domain.get_possible_values(slot)
get_possible_values(slot) ==
    CASE slot = "food"        -> <<"italian", "chinese", "thai">>
      [] slot = "parking_lot" -> <<"0", "1">>
      [] slot = "wifi"        -> <<"0", "1">>
      [] slot = "area"        -> <<"north", "south", "centre">>
      [] OTHER                -> <<>>

Row(n, f, p, w, a, ar) ==
    << [k |-> "name", v |-> n], [k |-> "food", v |-> f], [k |-> "parking_lot", v |-> p],
       [k |-> "wifi", v |-> w], [k |-> "address", v |-> a], [k |-> "area", v |-> ar] >>

\* the rows of the store, in the order queries return them
Database ==
    << Row("A", "italian", "1", "1", "a_street", "centre"),
       Row("B", "italian", "0", "1", None, "centre"),
       Row("C", "chinese", "1", "0", "c_street", "centre") >>

\* a row satisfies a constraint mapping slot -> list of values
Matches(row, constraints) ==
    \A i \in 1..Len(constraints) :
        /\ HasKey(row, constraints[i].k)
        /\ \A j \in 1..Len(constraints[i].v) :
              Lookup(row, constraints[i].k) = constraints[i].v[j]

\* domain.find_entities(constraints): the rows matching every constraint value,
\* all rows for empty constraints
find_entities(constraints) ==
    SelectSeq(Database, LAMBDA row : Matches(row, constraints))

\* domain.find_info_about_entity(name, slots): the requested attributes of the
\* rows of that entity
find_info_about_entity(name, slots) ==
    LET rows == SelectSeq(Database, LAMBDA row : Lookup(row, DomainKey) = name)
        cols == SelectSeq(slots, LAMBDA c : HasKey(Database[1], c))
        proj(row) == [j \in 1..Len(cols) |-> [k |-> cols[j], v |-> Lookup(row, cols[j])]]
    IN  [i \in 1..Len(rows) |-> proj(rows[i])]

\* the outcomes of domain.distance_duration(start, name, manner)
DistanceOutcomes ==
    {<<"1km", "10min">>, <<None, None>>, <<"BadTravelManner", "BadTravelManner">>}

\* one call to the domain
Call(fn, id, slots, constraints) ==
    [fn |-> fn, id |-> id, slots |-> slots, constraints |-> constraints]

QueryFns == {"find_entities", "find_info_about_entity", "distance_duration",
             "query_opening_info", "query_manner_info"}

MutationFns == {"enter_rating", "enter_review"}

\* the rows the domain hands back to the find_entities or find_info_about_entity
\* call among the given calls, none when there is no such call
RowsReturned(domain_calls) ==
    LET finds == SelectSeq(domain_calls,
                    LAMBDA c : c.fn \in {"find_entities", "find_info_about_entity"})
    IN  IF finds = <<>> THEN <<>>
        ELSE IF finds[1].fn = "find_entities" THEN find_entities(finds[1].constraints)
        ELSE find_info_about_entity(finds[1].id, finds[1].slots)

----------------------------------------------------------------------------
(* BeliefState: user_acts is a set; informs is an ordered mapping          *)
(* slot -> (ordered mapping value -> score); requests a list of slots.     *)

BS(acts, informs, requests, rating, review) ==
    [user_acts |-> acts, informs |-> informs, requests |-> requests,
     given_rating |-> rating, review |-> review,
     start_point |-> "home", distance_manner |-> "walking",
     req_openingday |-> "monday", req_manner |-> "payment"]

\* the constraints when a slot with the value "dontcare" is kept as a constraint
get_constraints_dontcare(bs) ==
    LET informs  == bs.informs
        kept     == SelectSeq(informs, LAMBDA e : Len(e.v) > 0)
    IN  [slots    |-> [i \in 1..Len(kept) |-> [k |-> kept[i].k, v |-> Keys(kept[i].v)]],
         dontcare |-> <<>>]

\* _get_constraints keeping only the first value of every slot
get_constraints_collapsed(bs) ==
    LET informs  == bs.informs
        dontcare == SelectSeq(Keys(informs),
                        LAMBDA s : InSeq("dontcare", Keys(Lookup(informs, s))))
        kept     == SelectSeq(informs,
                        LAMBDA e : ~InSeq(e.k, dontcare) /\ Len(e.v) > 0)
    IN  [slots    |-> [i \in 1..Len(kept) |-> [k |-> kept[i].k, v |-> <<kept[i].v[1].k>>]],
         dontcare |-> dontcare]

\* _get_constraints: (slots, dontcare)
get_constraints(bs) ==
    LET informs  == bs.informs
        dontcare == SelectSeq(Keys(informs),
                        LAMBDA s : InSeq("dontcare", Keys(Lookup(informs, s))))
        kept     == SelectSeq(informs,
                        LAMBDA e : ~InSeq(e.k, dontcare) /\ Len(e.v) > 0)
    IN  [slots    |-> [i \in 1..Len(kept) |-> [k |-> kept[i].k, v |-> Keys(kept[i].v)]],
         dontcare |-> dontcare]

\* the value informed first, whatever its score
TopValue_first(possible) == possible[1].k

\* sorted(possible_names.items(), key=score, reverse=True)[0][0]: the value with
\* the highest score, the first such value in insertion order (the sort is stable)
TopValue(possible) ==
    LET best == CHOOSE i \in 1..Len(possible) :
                    /\ \A j \in 1..Len(possible) : possible[j].v <= possible[i].v
                    /\ \A j \in 1..(i-1) : possible[j].v < possible[i].v
    IN  possible[best].k

\* list[i] for a Python index i: negative indexes count from the end
PyIndexOk(list, i) == -Len(list) <= i /\ i < Len(list)
PyIndex(list, i) == IF i >= 0 THEN list[i + 1] ELSE list[Len(list) + i + 1]

\* _get_name: [err |-> an IndexError was raised, name |-> the identifier or None]
get_name(bs, suggestions, index) ==
    IF HasKey(bs.informs, DomainKey)
    THEN LET possible_names == Lookup(bs.informs, DomainKey)
         IN  [err |-> FALSE,
              name |-> IF possible_names = <<>> THEN None ELSE TopValue(possible_names)]
    ELSE IF index < Len(suggestions)
         THEN IF PyIndexOk(suggestions, index)
              THEN LET current_suggestion == PyIndex(suggestions, index)
                   IN  [err |-> FALSE,
                        name |-> IF current_suggestion # <<>>
                                 THEN Lookup(current_suggestion, DomainKey)
                                 ELSE None]
              ELSE [err |-> TRUE, name |-> None]
         ELSE [err |-> FALSE, name |-> None]

\* _get_open_slot: the first requestable slot that is not constrained, or None
get_open_slot(bs) ==
    LET filled_slots == get_constraints(bs).slots
        open == SelectSeq(SystemRequestableSlots, LAMBDA s : ~HasKey(filled_slots, s))
    IN  IF open = <<>> THEN None ELSE open[1]

\* _remove_gen_actions without the "more than one member" test of the loop
remove_gen_actions_unguarded(act_types_lst) == act_types_lst \ Fillers

\* _remove_gen_actions leaving the loop after the first removal
remove_gen_actions_once(act_types_lst) ==
    IF Cardinality(act_types_lst) > 1
    THEN IF "Thanks" \in act_types_lst THEN act_types_lst \ {"Thanks"}
         ELSE IF "Bad" \in act_types_lst THEN act_types_lst \ {"Bad"}
         ELSE IF "Hello" \in act_types_lst THEN act_types_lst \ {"Hello"}
         ELSE act_types_lst
    ELSE act_types_lst

\* _remove_gen_actions, on the user_acts set of the belief state
RECURSIVE remove_gen_actions(_)
remove_gen_actions(act_types_lst) ==
    IF Cardinality(act_types_lst) > 1
    THEN IF "Thanks" \in act_types_lst
         THEN remove_gen_actions(act_types_lst \ {"Thanks"})
         ELSE IF "Bad" \in act_types_lst
         THEN remove_gen_actions(act_types_lst \ {"Bad"})
         ELSE IF "Hello" \in act_types_lst
         THEN remove_gen_actions(act_types_lst \ {"Hello"})
         ELSE act_types_lst
    ELSE act_types_lst

----------------------------------------------------------------------------
(* Next-question selector *)

CountOf(val, values) == Cardinality({i \in 1..Len(values) : values[i] = val})

Abs(n) == IF n < 0 THEN -n ELSE n

\* _highest_info_gain sorting the differences in descending order
highest_info_gain_uneven(bin_slots, temp) ==
    LET informative(slot) ==
            LET pv == get_possible_values(slot)
            IN  CountOf(pv[1], Lookup(temp, slot)) > 0 /\ CountOf(pv[2], Lookup(temp, slot)) > 0
        diff(slot) ==
            LET pv == get_possible_values(slot)
            IN  Abs(CountOf(pv[1], Lookup(temp, slot)) - CountOf(pv[2], Lookup(temp, slot)))
        diffs == SelectSeq(bin_slots, informative)
        best == CHOOSE i \in 1..Len(diffs) :
                    /\ \A j \in 1..Len(diffs) : diff(diffs[i]) >= diff(diffs[j])
                    /\ \A j \in 1..(i-1) : diff(diffs[j]) < diff(diffs[i])
    IN  IF diffs = <<>> THEN "" ELSE diffs[best]

\* _highest_info_gain without the test that both values occur among the rows
highest_info_gain_unfiltered(bin_slots, temp) ==
    LET diff(slot) ==
            LET pv == get_possible_values(slot)
            IN  Abs(CountOf(pv[1], Lookup(temp, slot)) - CountOf(pv[2], Lookup(temp, slot)))
        best == CHOOSE i \in 1..Len(bin_slots) :
                    /\ \A j \in 1..Len(bin_slots) : diff(bin_slots[i]) <= diff(bin_slots[j])
                    /\ \A j \in 1..(i-1) : diff(bin_slots[j]) > diff(bin_slots[i])
    IN  IF bin_slots = <<>> THEN "" ELSE bin_slots[best]

\* _highest_info_gain: the binary slot with the most even split, "" when no
\* binary slot has both of its values among the rows
highest_info_gain(bin_slots, temp) ==
    LET informative(slot) ==
            LET pv == get_possible_values(slot)
            IN  CountOf(pv[1], Lookup(temp, slot)) > 0 /\ CountOf(pv[2], Lookup(temp, slot)) > 0
        diff(slot) ==
            LET pv == get_possible_values(slot)
            IN  Abs(CountOf(pv[1], Lookup(temp, slot)) - CountOf(pv[2], Lookup(temp, slot)))
        \* diffs, in the order the slots were inserted
        diffs == SelectSeq(bin_slots, informative)
        \* sorted(diffs.items(), key=lambda kv: kv[1])[0]: the sort is stable
        best == CHOOSE i \in 1..Len(diffs) :
                    /\ \A j \in 1..Len(diffs) : diff(diffs[i]) <= diff(diffs[j])
                    /\ \A j \in 1..(i-1) : diff(diffs[j]) > diff(diffs[i])
    IN  IF diffs = <<>> THEN "" ELSE diffs[best]

\* _gen_next_request scanning the non-binary slots from the end of the list
gen_next_request_last(temp, bs) ==
    LET c == get_constraints(bs)
        req_slots == SelectSeq(SystemRequestableSlots,
                        LAMBDA s : ~InSeq(s, c.dontcare) /\ ~HasKey(c.slots, s))
        bin_slots == SelectSeq(req_slots, LAMBDA s : Len(get_possible_values(s)) = 2)
        non_bin_slots == SelectSeq(req_slots, LAMBDA s : ~InSeq(s, bin_slots))
        differing == SelectSeq(non_bin_slots,
                        LAMBDA s : Cardinality(Range(Lookup(temp, s))) > 1)
    IN  IF differing # <<>> THEN differing[Len(differing)]
        ELSE highest_info_gain(bin_slots, temp)

\* _gen_next_request: "" when there is nothing to ask
gen_next_request(temp, bs) ==
    LET c == get_constraints(bs)
        req_slots == SelectSeq(SystemRequestableSlots,
                        LAMBDA s : ~InSeq(s, c.dontcare) /\ ~HasKey(c.slots, s))
        bin_slots == SelectSeq(req_slots, LAMBDA s : Len(get_possible_values(s)) = 2)
        non_bin_slots == SelectSeq(req_slots, LAMBDA s : ~InSeq(s, bin_slots))
        differing == SelectSeq(non_bin_slots,
                        LAMBDA s : Cardinality(Range(Lookup(temp, s))) > 1)
    IN  IF differing # <<>> THEN differing[1] ELSE highest_info_gain(bin_slots, temp)

\* the column table built by _raw_action: key -> values over the result rows
\* (the primary-key column stays empty)
ColumnTable(q_res) ==
    [i \in 1..Len(q_res[1]) |->
        [k |-> q_res[1][i].k,
         v |-> IF q_res[1][i].k = DomainKey THEN <<>>
               ELSE [r \in 1..Len(q_res) |-> Lookup(q_res[r], q_res[1][i].k)]]]

\* the raw act when outstanding requests do not keep the selector from asking
raw_action_requests(q_res, bs) ==
    IF Len(q_res) > 1
    THEN LET next_req == gen_next_request(ColumnTable(q_res), bs)
         IN  IF next_req # ""
             THEN add_value(SetType(NewSysAct, "Request"), next_req, None)
             ELSE SetType(NewSysAct, "InformByName")
    ELSE SetType(NewSysAct, "InformByName")

\* _raw_action: a Request for the next question, or an empty InformByName
raw_action(q_res, bs) ==
    IF Len(q_res) > 1 /\ bs.requests = <<>>
    THEN LET next_req == gen_next_request(ColumnTable(q_res), bs)
         IN  IF next_req # ""
             THEN add_value(SetType(NewSysAct, "Request"), next_req, None)
             ELSE SetType(NewSysAct, "InformByName")
    ELSE SetType(NewSysAct, "InformByName")

----------------------------------------------------------------------------
(* Inform builder *)

\* number of keys of the first row a by-primary-key inform carries
MaxInformKeys == 4

\* the act with only the first value of each constraint added
AddConstraints_first(act, bs) ==
    LET constraints == get_constraints(bs).slots
        step[i \in 0..Len(constraints)] ==
            IF i = 0 THEN act
            ELSE add_list_value(step[i-1], constraints[i].k, <<constraints[i].v[1]>>)
    IN  step[Len(constraints)]

\* the constraints of the user appended to an offer
AddConstraints(act, bs) ==
    LET constraints == get_constraints(bs).slots
        step[i \in 0..Len(constraints)] ==
            IF i = 0 THEN act
            ELSE add_list_value(step[i-1], constraints[i].k, constraints[i].v)
    IN  step[Len(constraints)]

\* the value _convert_inform_by_primkey puts into the act for key k
PrimkeyValue(k, value) ==
    LET res == IF value # "" /\ value # None /\ value # "None" THEN value
               ELSE "not available"
    IN  IF k = "parking_lot" /\ res = "0" THEN "no"
        ELSE IF k = "parking_lot" /\ res = "1" THEN "a"
        ELSE res

\* every key of the result row, without the cut after the fourth
InformKeys_all(result) == Keys(result)

\* the first keys of a result row that a by-primary-key inform carries
InformKeys(result) ==
    SubSeq(Keys(result), 1,
           IF Len(result) < MaxInformKeys THEN Len(result) ELSE MaxInformKeys)

\* the act with the values of the given keys of the row added
AddRowValues(act, result, keys) ==
    LET step[i \in 0..Len(keys)] ==
            IF i = 0 THEN act
            ELSE add_value(step[i-1], keys[i],
                           PrimkeyValue(keys[i], Lookup(result, keys[i])))
    IN  step[Len(keys)]

\* "Name might not be a constraint in request queries, so add it"
AddMissingName(filled, keys, name) ==
    IF InSeq(DomainKey, keys) THEN [act |-> filled, err |-> FALSE]
    ELSE IF name.err THEN [act |-> filled, err |-> TRUE]
    ELSE [act |-> add_value(filled, DomainKey, name.name), err |-> FALSE]

\* _convert_inform_by_primkey: [act, err]
convert_inform_by_primkey(q_results, act, bs, suggestions, index) ==
    IF q_results # <<>>
    THEN AddMissingName(
             AddRowValues(SetType(act, "InformByName"), q_results[1],
                          InformKeys(q_results[1])),
             InformKeys(q_results[1]),
             get_name(bs, suggestions, index))
    ELSE [act |-> add_value(SetType(act, "InformByName"), DomainKey, "none"),
          err |-> FALSE]

\* the alternatives cursor without the reset to -1 for a newly cached list
AltStart_noreset(q_res, suggestions, index) == index

\* the alternatives cursor without the clamp to the last index
AltCursor_unclamped(n, length) == n

\* the cursor from which _convert_inform_by_alternatives starts: -1 when the
\* result set is cached as the new candidate list
AltStart(q_res, suggestions, index) ==
    IF q_res # <<>> /\ suggestions = <<>> THEN -1 ELSE index

\* the cursor _convert_inform_by_alternatives leaves, for the incremented cursor n
\* and a list of the given length
AltCursor(n, length) == IF n <= length - 1 THEN n ELSE length - 1

\* the identifier an alternatives inform carries when the incremented cursor n
\* is past the end of the list
AltPastEnd(suggestions) == "none"

\* the candidate list _convert_inform_by_alternatives scrolls through
AltList(q_res, suggestions) ==
    IF q_res # <<>> /\ suggestions = <<>> THEN q_res ELSE suggestions

\* the inform for the incremented cursor n over the list
AltInform(act, list, n) ==
    IF n <= Len(list) - 1
    THEN add_value(SetType(act, IF n = 0 THEN "InformByName" ELSE "InformByAlternatives"),
                   DomainKey, Lookup(list[n + 1], DomainKey))
    ELSE add_value(SetType(act, "InformByAlternatives"), DomainKey, AltPastEnd(list))

AltResult(act, bs, list, n) ==
    [act |-> AddConstraints(AltInform(act, list, n), bs),
     suggestions |-> list,
     index |-> AltCursor(n, Len(list))]

\* _convert_inform_by_alternatives: [act, suggestions, index]
convert_inform_by_alternatives(act, q_res, bs, suggestions, index) ==
    AltResult(act, bs, AltList(q_res, suggestions),
              AltStart(q_res, suggestions, index) + 1)

\* the candidate list and the cursor _convert_inform_by_constraints leaves
ConstraintsCache(q_results, suggestions, index) ==
    IF q_results # <<>> THEN [suggestions |-> q_results, index |-> 0]
    ELSE [suggestions |-> suggestions, index |-> index]

\* the identifier an offer carries
OfferName(q_results) ==
    IF q_results # <<>> THEN Lookup(q_results[1], DomainKey) ELSE "none"

ConstraintsResult(act, cache) ==
    [act |-> act, suggestions |-> cache.suggestions, index |-> cache.index]

\* _convert_inform_by_constraints: [act, suggestions, index]
convert_inform_by_constraints(q_results, act, bs, suggestions, index) ==
    ConstraintsResult(
        AddConstraints(SetType(add_value(act, DomainKey, OfferName(q_results)),
                               "InformByName"), bs),
        ConstraintsCache(q_results, suggestions, index))

\* what _convert_inform hands back: the converter's answer r, the mode it ran in
Converted(r, mode) ==
    [act |-> r.act, suggestions |-> r.suggestions, index |-> r.index,
     err |-> r.err, mode |-> mode]

\* the answer of a converter that empties the candidate list
Unscrolled_emptied(r, suggestions, index) ==
    [act |-> r.act, suggestions |-> <<>>, index |-> 0, err |-> r.err]

\* the answer of a converter that leaves the candidate list alone
Unscrolled(r, suggestions, index) ==
    [act |-> r.act, suggestions |-> suggestions, index |-> index, err |-> r.err]

\* the answer of a converter that cannot raise
Scrolled(r) ==
    [act |-> r.act, suggestions |-> r.suggestions, index |-> r.index, err |-> FALSE]

\* _convert_inform: [act, suggestions, index, err, mode]
convert_inform(q_results, act, bs, suggestions, index) ==
    IF bs.requests # <<>> \/ HasKey(bs.informs, DomainKey)
    THEN Converted(Unscrolled(
             convert_inform_by_primkey(q_results, act, bs, suggestions, index),
             suggestions, index), "by_primkey")
    ELSE IF "RequestAlternatives" \in bs.user_acts
    THEN Converted(Scrolled(
             convert_inform_by_alternatives(act, q_results, bs, suggestions, index)),
             "by_alternatives")
    ELSE Converted(Scrolled(
             convert_inform_by_constraints(q_results, act, bs, suggestions, index)),
             "by_constraints")

----------------------------------------------------------------------------
(* Domain-specific decision (_next_action) *)

\* what a branch of the decision hands back: the act, the candidate list and
\* cursor it leaves, the domain calls it made, the exception that ended it
Result(act, suggestions, index, domain_calls, exception, route) ==
    [act |-> act, suggestions |-> suggestions, index |-> index,
     calls |-> domain_calls, raised |-> exception, path |-> route]

\* the query _query_db issues for the resolved name
QueryFor(bs, name) ==
    IF name.err THEN [err |-> TRUE, results |-> <<>>, call |-> <<>>]
    ELSE IF name.name # None /\ bs.requests # <<>>
    THEN [err |-> FALSE,
          results |-> find_info_about_entity(name.name, bs.requests),
          call |-> <<Call("find_info_about_entity", name.name, bs.requests, <<>>)>>]
    ELSE [err |-> FALSE,
          results |-> find_entities(get_constraints(bs).slots),
          call |-> <<Call("find_entities", None, <<>>, get_constraints(bs).slots)>>]

\* _query_db: [err, results, call]
query_db(bs, suggestions, index) == QueryFor(bs, get_name(bs, suggestions, index))

\* the end of _next_action: the converted inform gets the identifier "none" when
\* it carries no identifier
Informed_(q, conv) ==
    IF conv.err
    THEN Result(NoAct, conv.suggestions, conv.index, q.call, "IndexError", conv.mode)
    ELSE Result(IF get_values(conv.act, DomainKey) # <<>> THEN conv.act
                ELSE add_value(conv.act, DomainKey, "none"),
                conv.suggestions, conv.index, q.call, "", conv.mode)

\* _next_action after the query: a Request is returned as it is, an inform is
\* converted
Classified(bs, suggestions, index, q, raw) ==
    IF raw.type = "Request"
    THEN Result(raw, suggestions, index, q.call, "", "request")
    ELSE Informed_(q, convert_inform(q.results, raw, bs, suggestions, index))

Queried(bs, suggestions, index, q) ==
    IF q.err THEN Result(NoAct, suggestions, index, <<>>, "IndexError", "query")
    ELSE Classified(bs, suggestions, index, q, raw_action(q.results, bs))

\* the guards and the fast path of _next_action, for the resolved name
Guarded(bs, suggestions, index, name) ==
    IF "Bad" \in bs.user_acts
    THEN Result(SetType(NewSysAct, "Bad"), suggestions, index, <<>>, "", "guard_bad")
    ELSE IF bs.requests # <<>> /\ name.err
    THEN Result(NoAct, suggestions, index, <<>>, "IndexError", "guard_requests")
    ELSE IF bs.requests # <<>> /\ name.name = None
    THEN Result(SetType(NewSysAct, "Bad"), suggestions, index, <<>>, "", "guard_requests")
    ELSE IF "RequestAlternatives" \in bs.user_acts /\ get_constraints(bs).slots = <<>>
    THEN Result(SetType(NewSysAct, "Bad"), suggestions, index, <<>>, "",
                "guard_alternatives")
    ELSE IF HasKey(bs.informs, DomainKey) /\ bs.requests = <<>>
    THEN Result(add_value(SetType(NewSysAct, "InformByName"), DomainKey, name.name),
                suggestions, index, <<>>, "", "fast_path")
    ELSE Queried(bs, suggestions, index, query_db(bs, suggestions, index))

\* _next_action
next_action(bs, suggestions, index) ==
    Guarded(bs, suggestions, index, get_name(bs, suggestions, index))

----------------------------------------------------------------------------
(* Turn dispatcher (choose_sys_act) *)

\* the if/elif chain of choose_sys_act after filler suppression: the branches in
\* the order they are tested, each with the user acts that select it
BranchOrder ==
    << [name |-> "Bad",                  acts |-> {"Bad"}],
       [name |-> "Bye",                  acts |-> {"Bye"}],
       [name |-> "Thanks",               acts |-> {"Thanks"}],
       [name |-> "NewDialogue",          acts |-> {"NewDialogue"}],
       [name |-> "HelloSelectDomain",    acts |-> {"Hello", "SelectDomain"}],
       [name |-> "GiveRating",           acts |-> {"GiveRating"}],
       [name |-> "WriteReview",          acts |-> {"WriteReview"}],
       [name |-> "WrittenReview",        acts |-> {"WrittenReview"}],
       [name |-> "AskDistance",          acts |-> {"AskDistance"}],
       [name |-> "InformStartPoint",     acts |-> {"InformStartPoint"}],
       [name |-> "InformDistanceManner", acts |-> {"InformDistanceManner"}],
       [name |-> "AskOpeningDay",        acts |-> {"AskOpeningDay"}],
       [name |-> "AskManner",            acts |-> {"AskManner"}],
       [name |-> "NegativeInform",       acts |-> {"NegativeInform"}],
       [name |-> "HelloOpenSlot",        acts |-> {"Hello", "SelectDomain"}] >>

\* the chain read from its end: the last branch whose test succeeds
DispatchBranch_last(user_acts) ==
    LET hits == SelectSeq(BranchOrder, LAMBDA b : b.acts \cap user_acts # {})
    IN  IF hits = <<>> THEN "next_action" ELSE hits[Len(hits)].name

\* the branch taken for a user-action set: the first whose test succeeds, the
\* final else (_next_action) when none does
DispatchBranch(user_acts) ==
    LET hits == SelectSeq(BranchOrder, LAMBDA b : b.acts \cap user_acts # {})
    IN  IF hits = <<>> THEN "next_action" ELSE hits[1].name

\* _modfiy_db: the calls made for the rating and the review of the belief state
modfiy_db(bs, name) ==
    (IF bs.given_rating # "" THEN <<Call("enter_rating", name, <<bs.given_rating>>, <<>>)>>
     ELSE <<>>)
    \o (IF bs.review # "" THEN <<Call("enter_review", name, <<bs.review>>, <<>>)>>
        ELSE <<>>)

\* the reply "which restaurant/bar?" of the branches that need a focused entity
RequestName == add_value(SetType(NewSysAct, "Request"), "name", None)

\* the branches that resolve the focused entity first
NeedsName == {"GiveRating", "WriteReview", "WrittenReview", "AskDistance",
              "InformDistanceManner", "AskOpeningDay", "AskManner"}

\* the answer of a branch that leaves the candidate list alone
Keep(act, suggestions, index, domain_calls, b) ==
    Result(act, suggestions, index, domain_calls, "", b)

\* a new act carrying the focused entity
Named(name) == add_value(NewSysAct, DomainKey, name)

\* the InformDistanceManner branch
DistanceAct(bs, name, distance) ==
    IF distance[1] = "BadTravelManner" /\ distance[2] = "BadTravelManner"
    THEN SetType(NewSysAct, "BadTravelManner")
    ELSE IF distance[1] = None /\ distance[2] = None
    THEN SetType(NewSysAct, "BadAddress")
    ELSE SetType(add_value(add_value(add_value(Named(name),
                    "distance_manner", bs.distance_manner),
                    "distance", distance[1]), "duration", distance[2]),
                 "InformDistance")

\* the second Hello/SelectDomain branch
OpenSlotAct(slot) ==
    IF slot # None THEN add_value(SetType(NewSysAct, "Request"), slot, None)
    ELSE SetType(NewSysAct, "RequestMore")

\* the act and the domain calls of a branch that needs the focused entity:
\* [act, calls]
NamedBranch(b, bs, name, distance) ==
    CASE b = "GiveRating" ->
            IF name # None
            THEN [act |-> SetType(add_value(Named(name), "ratings_givable",
                                            bs.given_rating), "ConfirmGiveRating"),
                  calls |-> modfiy_db(bs, name)]
            ELSE [act |-> RequestName, calls |-> <<>>]
      [] b = "WriteReview" ->
            IF name # None
            THEN [act |-> SetType(Named(name), "AskWriteReview"), calls |-> <<>>]
            ELSE [act |-> RequestName, calls |-> <<>>]
      [] b = "WrittenReview" ->
            [act |-> SetType(add_value(Named(name), "review", bs.review),
                             "ConfirmWriteReview"),
             calls |-> modfiy_db(bs, name)]
      [] b = "AskDistance" ->
            IF name # None
            THEN [act |-> SetType(NewSysAct, "AskStartPoint"), calls |-> <<>>]
            ELSE [act |-> RequestName, calls |-> <<>>]
      [] b = "InformDistanceManner" ->
            [act |-> DistanceAct(bs, name, distance),
             calls |-> <<Call("distance_duration", name,
                              <<bs.start_point, bs.distance_manner>>, <<>>)>>]
      [] b = "AskOpeningDay" ->
            IF name # None
            THEN [act |-> SetType(add_value(add_value(Named(name),
                              "opening_day", bs.req_openingday),
                              "opening_info", "opening_text"), "InformOpeningDay"),
                  calls |-> <<Call("query_opening_info", name,
                                   <<bs.req_openingday>>, <<>>)>>]
            ELSE [act |-> RequestName, calls |-> <<>>]
      [] b = "AskManner" ->
            IF name # None
            THEN [act |-> SetType(add_value(Named(name), "manner_info", "manner_text"),
                                  "InformManner"),
                  calls |-> <<Call("query_manner_info", name, <<bs.req_manner>>, <<>>)>>]
            ELSE [act |-> RequestName, calls |-> <<>>]

KeepNamed(r, suggestions, index, b) == Keep(r.act, suggestions, index, r.calls, b)

WithName(b, bs, suggestions, index, distance, name) ==
    IF name.err THEN Result(NoAct, suggestions, index, <<>>, "IndexError", b)
    ELSE KeepNamed(NamedBranch(b, bs, name.name, distance), suggestions, index, b)

\* one branch of the chain; distance is the outcome of domain.distance_duration
Handle(b, bs, suggestions, index, distance) ==
    CASE b = "Bad"    -> Keep(SetType(NewSysAct, "Bad"), suggestions, index, <<>>, b)
      [] b = "Bye"    -> Keep(SetType(NewSysAct, "Bye"), suggestions, index, <<>>, b)
      [] b = "Thanks" -> Keep(SetType(NewSysAct, "RequestMore"), suggestions, index, <<>>, b)
      [] b = "NewDialogue" -> Result(SetType(NewSysAct, "Welcome"), <<>>, 0, <<>>, "", b)
      [] b = "HelloSelectDomain" ->
            Keep(SetType(NewSysAct, "GuideUser"), suggestions, index, <<>>, b)
      [] b \in NeedsName ->
            WithName(b, bs, suggestions, index, distance,
                     get_name(bs, suggestions, index))
      [] b = "InformStartPoint" ->
            Keep(SetType(NewSysAct, "AskDistanceManner"), suggestions, index, <<>>, b)
      [] b = "NegativeInform" ->
            Keep(SetType(NewSysAct, "WhatDoYouWant"), suggestions, index, <<>>, b)
      [] b = "HelloOpenSlot" ->
            IF "SelectDomain" \in bs.user_acts
            THEN Result(OpenSlotAct(get_open_slot(bs)), <<>>, 0, <<>>, "", b)
            ELSE Keep(OpenSlotAct(get_open_slot(bs)), suggestions, index, <<>>, b)
      [] OTHER -> next_action(bs, suggestions, index)

\* a chain in which no branch calls dialog_start()
Resets_never(b, bs) == FALSE

\* the branches that end in dialog_start()
Resets(b, bs) ==
    \/ b = "NewDialogue"
    \/ b = "HelloOpenSlot" /\ "SelectDomain" \in bs.user_acts

----------------------------------------------------------------------------
(* Belief states handed to the policy *)

Score(value, score) == [k |-> value, v |-> score]
Informed(slot, values) == [k |-> slot, v |-> values]

NoInforms       == <<>>
NameInformed    == <<Informed("name", <<Score("B", 1), Score("A", 2)>>)>>
NameWithoutValue == <<Informed("name", <<>>)>>
FoodItalian     == <<Informed("food", <<Score("italian", 1)>>)>>
FoodChinese     == <<Informed("food", <<Score("chinese", 1)>>)>>
FoodThai        == <<Informed("food", <<Score("thai", 1)>>)>>
FoodTwoValues   == <<Informed("food", <<Score("italian", 1), Score("chinese", 1)>>)>>
FoodDontcare    == <<Informed("food", <<Score("dontcare", 1)>>)>>
FoodWithoutValue == <<Informed("food", <<>>)>>
ParkingOnly     == <<Informed("parking_lot", <<Score("1", 1)>>)>>
ItalianAnyParking == <<Informed("food", <<Score("italian", 1)>>),
                       Informed("parking_lot", <<Score("dontcare", 1)>>)>>
ItalianAnyWifi  == <<Informed("food", <<Score("italian", 1)>>),
                     Informed("wifi", <<Score("dontcare", 1)>>)>>
ItalianParking  == <<Informed("parking_lot", <<Score("1", 1)>>),
                     Informed("food", <<Score("italian", 1)>>)>>
AllConstrained  == <<Informed("food", <<Score("italian", 1)>>),
                     Informed("parking_lot", <<Score("0", 1)>>),
                     Informed("area", <<Score("centre", 1)>>),
                     Informed("wifi", <<Score("1", 1)>>)>>

NameInforms == {NoInforms, NameInformed, NameWithoutValue}

ConstraintInforms == {NoInforms, FoodItalian, FoodChinese, FoodThai, FoodTwoValues,
                      FoodDontcare, FoodWithoutValue, ParkingOnly, ItalianAnyParking,
                      ItalianAnyWifi, ItalianParking,
                      AllConstrained}

RequestLists == {<<>>, <<"address">>, <<"food", "parking_lot">>}

\* the sets of user acts of one turn: any single act or none, and some pairs
TurnActs ==
    {{}} \cup {{a} : a \in UserActs}
         \cup {{"Hello", "Inform"}, {"Thanks", "Bad"}, {"Thanks", "GiveRating"},
               {"Bad", "Bye"}, {"Hello", "Thanks"}, {"SelectDomain", "Inform"},
               {"Inform", "RequestAlternatives"}}

\* turns about a named or focused entity, and turns with constraints
MetaInputs ==
    {BS(acts, informs, <<>>, rr[1], rr[2]) :
        acts \in TurnActs, informs \in NameInforms,
        rr \in {<<"", "">>, <<"4", "good">>}}

DomainInputs ==
    {BS(acts, informs, requests, "", "") :
        acts \in {{"Inform"}, {"Request"}, {"RequestAlternatives"}, {"Hello"},
                  {"GiveRating"}, {"WrittenReview"}},
        informs \in ConstraintInforms \cup {NameInformed, NameWithoutValue},
        requests \in RequestLists}

Inputs == MetaInputs \cup DomainInputs

\* the belief state before the first turn
EmptyBS == BS({}, NoInforms, <<>>, "", "")

----------------------------------------------------------------------------
(* Template (services/nlg/templates/data/commands/template.py) *)

\* the classes of the commands handed to add_inner_command; "Command" is any
\* command that is none of the three classes the method accepts
CommandClasses == {"Message", "SpecialCaseException", "SpecialCaseAddition", "Command"}

\* the command objects: two distinct objects of each class
Commands == [class : CommandClasses, id : {1, 2}]

\* isinstance(command, cls)
isinstance(command, cls) == command.class = cls

\* the lists Template.__init__ creates
NewTemplate == [messages |-> <<>>, special_cases |-> <<>>, additions |-> <<>>]

\* the test that lets a Message in whatever was added before
were_special_cases_added_before_never(t) == FALSE

\* _were_special_cases_added_before
were_special_cases_added_before(t) == Len(t.special_cases) > 0

\* add_inner_command(command) on template t: the template it leaves and the
\* exception it raises ("" when it returns)
add_inner_command(t, command) ==
    IF isinstance(command, "Message")
    THEN IF were_special_cases_added_before(t)
         THEN [template |-> t, raised |-> "ValueError"]
         ELSE [template |-> [t EXCEPT !.messages = Append(@, command)], raised |-> ""]
    ELSE IF isinstance(command, "SpecialCaseException")
    THEN [template |-> [t EXCEPT !.special_cases = Append(@, command)], raised |-> ""]
    ELSE IF isinstance(command, "SpecialCaseAddition")
    THEN [template |-> [t EXCEPT !.additions = Append(@, command)], raised |-> ""]
    ELSE [template |-> t, raised |-> "ValueError"]

----------------------------------------------------------------------------
(* Operations on the policy object *)

Session == [turns |-> turns, first_turn |-> first_turn,
            suggestions |-> current_suggestions, index |-> s_index]

\* the turn-budget test with > for >=
BudgetReached_late(t, budget) == t > budget

\* the turn-budget test of choose_sys_act
BudgetReached(t, budget) == t >= budget

\* the two Welcome tests of choose_sys_act on the first turn
FirstTurnWelcome(flag, user_acts) ==
    flag /\ (user_acts = {} \/ "NewDialogue" \in user_acts)

\* nothing of a turn is held between two turns
Idle ==
    /\ bs_in = EmptyBS
    /\ beliefstate = EmptyBS
    /\ sys_act = NoAct
    /\ raised = ""
    /\ branch = ""
    /\ path = ""
    /\ calls = <<>>
    /\ results = <<>>
    /\ distance_duration = <<>>
    /\ template = NewTemplate
    /\ added = <<>>

\* the state the constructor and the first dialog_start() leave
Init ==
    /\ max_turns \in {MinMaxTurns, MaxMaxTurns}
    /\ turns = 0
    /\ first_turn = TRUE
    /\ current_suggestions = <<>>
    /\ s_index = 0
    /\ Idle
    /\ pre = [turns |-> 0, first_turn |-> TRUE, suggestions |-> <<>>, index |-> 0]
    /\ op = "init"

\* dialog_start(), called by the dialog system when a new dialog begins
dialog_start ==
    /\ op = "end_turn"
    /\ turns' = 0
    /\ first_turn' = TRUE
    /\ current_suggestions' = <<>>
    /\ s_index' = 0
    /\ pre' = Session
    /\ op' = "dialog_start"
    /\ UNCHANGED <<max_turns, bs_in, beliefstate, sys_act, raised, branch, path, calls,
                   results, distance_duration, template, added>>

\* an early return that leaves the first-turn flag as it found it
Early_keepflag(bs, t, type, b) ==
    /\ turns' = t
    /\ first_turn' = first_turn
    /\ sys_act' = SetType(NewSysAct, type)
    /\ branch' = b
    /\ path' = b
    /\ beliefstate' = bs
    /\ raised' = ""
    /\ calls' = <<>>
    /\ results' = <<>>
    /\ distance_duration' = <<>>
    /\ UNCHANGED <<current_suggestions, s_index>>

\* a decision that returns before the dispatch
Early(bs, t, type, b) ==
    /\ turns' = t
    /\ first_turn' = FALSE
    /\ sys_act' = SetType(NewSysAct, type)
    /\ branch' = b
    /\ path' = b
    /\ beliefstate' = bs
    /\ raised' = ""
    /\ calls' = <<>>
    /\ results' = <<>>
    /\ distance_duration' = <<>>
    /\ UNCHANGED <<current_suggestions, s_index>>

\* a decision that went through the dispatch: bs is the belief state after filler
\* suppression, b the branch taken, r what it handed back and distance the
\* answer of the distance lookup, kept when the lookup was made
Dispatched(bs, t, b, r, distance) ==
    /\ beliefstate' = bs
    /\ branch' = b
    /\ path' = r.path
    /\ sys_act' = r.act
    /\ raised' = r.raised
    /\ calls' = r.calls
    /\ results' = RowsReturned(r.calls)
    /\ distance_duration' = IF \E i \in 1..Len(r.calls) : r.calls[i].fn = "distance_duration"
                            THEN distance ELSE <<>>
    /\ current_suggestions' = r.suggestions
    /\ s_index' = r.index
    /\ turns' = IF r.raised = "" /\ Resets(b, bs) THEN 0 ELSE t
    /\ first_turn' = (r.raised = "" /\ b = "NewDialogue")

Dispatch(bs, t, distance) ==
    Dispatched(bs, t, DispatchBranch(bs.user_acts),
               Handle(DispatchBranch(bs.user_acts), bs, current_suggestions, s_index,
                      distance),
               distance)

\* the belief state after _remove_gen_actions
Suppressed(bs) == [bs EXCEPT !.user_acts = remove_gen_actions(bs.user_acts)]

\* choose_sys_act(beliefstate); distance is what domain.distance_duration answers
choose_sys_act(bs, distance) ==
    /\ pre' = Session
    /\ op' = "choose_sys_act"
    /\ bs_in' = bs
    /\ UNCHANGED max_turns
    /\ IF FirstTurnWelcome(first_turn, bs.user_acts)
       THEN Early(bs, turns + 1, "Welcome", "first_turn")
       ELSE IF BudgetReached(turns + 1, max_turns)
       THEN Early(bs, turns + 1, "Bye", "max_turns")
       ELSE Dispatch(Suppressed(bs), turns + 1, distance)

\* the published act and the belief state of the turn are consumed; the policy
\* object keeps its session fields only
end_turn ==
    /\ op = "choose_sys_act"
    /\ op' = "end_turn"
    /\ pre' = Session
    /\ bs_in' = EmptyBS
    /\ beliefstate' = EmptyBS
    /\ sys_act' = NoAct
    /\ raised' = ""
    /\ branch' = ""
    /\ path' = ""
    /\ calls' = <<>>
    /\ results' = <<>>
    /\ distance_duration' = <<>>
    /\ UNCHANGED <<turns, first_turn, max_turns, current_suggestions, s_index,
                   template, added>>

\* the outcomes of the distance lookup that a turn can see
Distances(bs) ==
    IF "InformDistanceManner" \in bs.user_acts THEN DistanceOutcomes
    ELSE {<<"1km", "10min">>}

\* one decision on a belief state of the given set
DecideFrom(inputs) ==
    /\ op # "choose_sys_act"
    /\ turns < max_turns + ExtraTurns
    /\ UNCHANGED <<template, added>>
    /\ \E bs \in inputs : \E distance \in Distances(bs) : choose_sys_act(bs, distance)

Decide == DecideFrom(Inputs)

Next == Decide \/ end_turn \/ dialog_start

Spec == Init /\ [][Next]_vars

\* the dispatcher on every user-action set of up to MaxActs acts
RECURSIVE ActSets(_)
ActSets(n) ==
    IF n = 0 THEN {{}}
    ELSE {acts \cup more : acts \in ActSets(n - 1), more \in {{}} \cup {{a} : a \in UserActs}}

DispatchActs == ActSets(MaxActs)

DispatchInputs ==
    {BS(acts, informs, <<>>, "4", "good") :
        acts \in DispatchActs, informs \in {NoInforms, NameInformed}}

DecideDispatch == DecideFrom(DispatchInputs)

NextDispatch == DecideDispatch \/ end_turn \/ dialog_start

SpecDispatch == Init /\ [][NextDispatch]_vars

----------------------------------------------------------------------------
(* The raw-action classifier and the next-question selector on query       *)
(* results of up to MaxRows rows                                           *)

\* the attribute values a result row is drawn from (food, parking_lot, wifi,
\* area): every combination of the two binary attributes, and rows that differ
\* from those in one or in both of the other attributes
SelectorValues ==
    ({"italian"} \X {"0", "1"} \X {"0", "1"} \X {"north"})
    \cup {<<"chinese", "1", "1", "north">>, <<"italian", "1", "1", "south">>,
          <<"chinese", "0", "0", "south">>}

\* the query result whose rows have the given attribute values
SelectorTable(t) ==
    [i \in 1..Len(t) |-> Row(ToString(i), t[i][1], t[i][2], t[i][3], "street", t[i][4])]

SelectorInputs ==
    {BS({"Inform"}, informs, requests, "", "") :
        informs \in {NoInforms, FoodItalian, FoodDontcare, ItalianAnyParking, ParkingOnly},
        requests \in {<<>>, <<"address">>}}
    \cup
    {BS({"RequestAlternatives"}, informs, <<>>, "", "") :
        informs \in {FoodItalian, ItalianAnyParking, ParkingOnly}}

\* _next_action has the rows find_entities returned for the constraints of the
\* belief state
InitSelector ==
    /\ max_turns = MaxMaxTurns
    /\ turns = 1
    /\ first_turn = FALSE
    /\ current_suggestions = <<>>
    /\ s_index = 0
    /\ \E n \in 0..MaxRows : \E t \in [1..n -> SelectorValues] : results = SelectorTable(t)
    /\ distance_duration = <<>>
    /\ template = NewTemplate
    /\ added = <<>>
    /\ bs_in \in {bs \in SelectorInputs :
                    \A i \in 1..Len(results) : Matches(results[i], get_constraints(bs).slots)}
    /\ beliefstate = bs_in
    /\ sys_act = NoAct
    /\ raised = ""
    /\ branch = "next_action"
    /\ path = "query"
    /\ calls = <<Call("find_entities", None, <<>>, get_constraints(bs_in).slots)>>
    /\ pre = [turns |-> 0, first_turn |-> TRUE, suggestions |-> <<>>, index |-> 0]
    /\ op = "query_db"

\* sys_act = self._raw_action(results, beliefstate)
classify ==
    /\ op = "query_db"
    /\ op' = "raw_action"
    /\ sys_act' = raw_action(results, beliefstate)
    /\ UNCHANGED <<turns, first_turn, max_turns, current_suggestions, s_index, bs_in,
                   beliefstate, raised, branch, path, calls, results,
                   distance_duration, template, added, pre>>

SpecSelector == InitSelector /\ [][classify]_vars

----------------------------------------------------------------------------
(* The inform builder on the answers to an entity lookup: rows of up to    *)
(* MaxKeys attributes                                                      *)

\* the columns an entity lookup can be asked for, in the order of the answer
InfoColumns == <<"address", "area", "food", "parking_lot", "name", "wifi">>

\* the values a column of the answer can hold: a value, the empty string, null
\* and the text "None"
InfoValues == {"1", "", None, "None"}

\* the belief states of a lookup with their session: the entity is named by the
\* user, or it is the candidate at the cursor
InfoFocus ==
    { [informs |-> NameInformed, suggestions |-> <<>>, index |-> 0],
      [informs |-> NoInforms, suggestions |-> <<Database[3]>>, index |-> 0] }

\* the row of the entity for the requested columns; the primary-key column holds
\* the identifier of the entity
InfoRow(requests, values, id) ==
    [i \in 1..Len(requests) |->
        [k |-> requests[i], v |-> IF requests[i] = DomainKey THEN id ELSE values[i]]]

\* the requests for a set of columns
InfoRequests(cols) == SelectSeq(InfoColumns, LAMBDA c : c \in cols)

\* _next_action holds the raw inform and the answer of find_info_about_entity
Looked(f, requests, id, rows) ==
    /\ max_turns = MaxMaxTurns
    /\ turns = 1
    /\ first_turn = FALSE
    /\ current_suggestions = f.suggestions
    /\ s_index = f.index
    /\ bs_in = BS({"Request"}, f.informs, requests, "", "")
    /\ beliefstate = bs_in
    /\ results = rows
    /\ distance_duration = <<>>
    /\ template = NewTemplate
    /\ added = <<>>
    /\ sys_act = SetType(NewSysAct, "InformByName")
    /\ raised = ""
    /\ branch = "next_action"
    /\ path = "query"
    /\ calls = <<Call("find_info_about_entity", id, requests, <<>>)>>
    /\ pre = [turns |-> 0, first_turn |-> FALSE, suggestions |-> f.suggestions,
              index |-> f.index]
    /\ op = "raw_action"

LookedUp(f, requests, id) ==
    \/ Looked(f, requests, id, <<>>)
    \/ \E values \in [1..Len(requests) -> InfoValues] :
          Looked(f, requests, id, <<InfoRow(requests, values, id)>>)

InitInform ==
    \E f \in InfoFocus :
        \E cols \in SUBSET Range(InfoColumns) :
            /\ cols # {}
            /\ Cardinality(cols) <= MaxKeys
            /\ LookedUp(f, InfoRequests(cols),
                        get_name(BS({}, f.informs, <<>>, "", ""), f.suggestions, f.index).name)

\* the end of _next_action for the result r of the conversion
Converting(r) ==
    /\ sys_act' = r.act
    /\ raised' = r.raised
    /\ path' = r.path
    /\ current_suggestions' = r.suggestions
    /\ s_index' = r.index

\* self._convert_inform(results, sys_act, beliefstate) and the lines after it
convert ==
    /\ op = "raw_action"
    /\ op' = "convert_inform"
    /\ Converting(Informed_([call |-> calls],
                  convert_inform(results, sys_act, beliefstate, current_suggestions,
                                 s_index)))
    /\ UNCHANGED <<turns, first_turn, max_turns, bs_in, beliefstate, branch, calls,
                   results, distance_duration, template, added, pre>>

SpecInform == InitInform /\ [][convert]_vars

----------------------------------------------------------------------------
(* Calls of add_inner_command on a new template *)

\* the outcome r of the call with the command is stored and logged
Added(command, r) ==
    /\ template' = r.template
    /\ added' = Append(added, [command |-> command, raised |-> r.raised])

\* template.add_inner_command(command), for any command
add_command ==
    /\ Len(added) < MaxCommands
    /\ \E command \in Commands : Added(command, add_inner_command(template, command))
    /\ op' = "add_inner_command"
    /\ UNCHANGED <<turns, first_turn, max_turns, current_suggestions, s_index, bs_in,
                   beliefstate, sys_act, raised, branch, path, calls, results,
                   distance_duration, pre>>

SpecTemplate == Init /\ [][add_command]_vars

----------------------------------------------------------------------------
(* Properties *)

Decided == op = "choose_sys_act"

\* the decision went past the first-turn and turn-budget returns
ReachedDispatch == Decided /\ branch \notin {"first_turn", "max_turns"}

\* the identifier values the returned act carries
ActNames == get_values(sys_act, DomainKey)

\* C1 as stated: a decision taken when the turn count, counting the current
\* turn, has reached max_turns yields Bye, whatever the action set and the
\* first-turn flag are.
C1_ByeAtBudgetAlways ==
    (Decided /\ pre.turns + 1 >= max_turns) => sys_act.type = "Bye"

\* C1 amended: a decision taken when the turn count has reached max_turns
\* yields Bye whatever the action set is, unless the first-turn flag is still
\* set and the action set is empty or holds NewDialogue (then it is Welcome);
\* every later decision of the session yields Bye.
C1_ByeAtBudgetAfterFirstTurn ==
    /\ (/\ Decided
        /\ pre.turns + 1 >= max_turns
        /\ ~(pre.first_turn /\ (bs_in.user_acts = {} \/ "NewDialogue" \in bs_in.user_acts)))
       => (sys_act.type = "Bye" /\ sys_act.slot_values = <<>> /\ raised = "")
    /\ (Decided /\ pre.turns >= max_turns) => sys_act.type = "Bye"

C1_Witness ==
    /\ Decided
    /\ pre.turns >= max_turns
    /\ bs_in.user_acts = {"NewDialogue"}
    /\ sys_act.type = "Bye"

\* C2: every decision returns exactly one SysAct whose type is a member of the
\* action enumeration; no decision ends in an error.
C2_AlwaysReturnsAction ==
    Decided => (raised = "" /\ sys_act.type \in SysActionTypes)

\* C3: whenever the candidate list is non-empty the cursor is a valid index
\* into it: 0 <= s_index <= len(current_suggestions) - 1.
C3_CursorInRange ==
    current_suggestions # <<>> =>
        (0 <= s_index /\ s_index <= Len(current_suggestions) - 1)

C3_Witness ==
    /\ Decided
    /\ path = "by_alternatives"
    /\ Len(current_suggestions) = 2
    /\ pre.index = 1
    /\ s_index = 1

\* C4: an alternatives request made after the cursor has reached the last
\* candidate of a non-empty list emits the identifier of the last candidate,
\* never "none".
C4_PastEndRepeatsLast ==
    (/\ Decided
     /\ path = "by_alternatives"
     /\ raised = ""
     /\ pre.suggestions # <<>>
     /\ pre.index = Len(pre.suggestions) - 1)
    => ActNames = <<Str(Lookup(pre.suggestions[Len(pre.suggestions)], DomainKey))>>

\* the constraints of the belief state handed in: the informed slots with a
\* value and without a "dontcare" value
Constrains(e) ==
    e.v # <<>> /\ \A j \in 1..Len(e.v) : e.v[j].k # "dontcare"

C6_BeliefStateUnchanged ==
    Decided => beliefstate = bs_in

\* C7: filler suppression is idempotent (applied to the set it left, it changes
\* nothing) and never empties a non-empty action set.
C7_SuppressionIdempotent ==
    ReachedDispatch =>
        /\ remove_gen_actions(beliefstate.user_acts) = beliefstate.user_acts
        /\ bs_in.user_acts # {} => beliefstate.user_acts # {}

C7_Witness ==
    /\ ReachedDispatch
    /\ bs_in.user_acts = {"Thanks", "Bad", "Hello"}
    /\ beliefstate.user_acts = {"Hello"}

\* C8: for an action set with an act outside {Thanks, Bad, Hello}, the set left
\* by filler suppression is the original set without Thanks, Bad and Hello; so
\* a Bad, Thanks or Hello act selects its branch only when the original set
\* held filler acts only.
C8_FillersNeverMask ==
    ReachedDispatch =>
        /\ bs_in.user_acts \ Fillers # {} =>
              beliefstate.user_acts = bs_in.user_acts \ Fillers
        /\ branch \in {"Bad", "Thanks"} => bs_in.user_acts \subseteq Fillers
        /\ (branch = "HelloSelectDomain" /\ "SelectDomain" \notin bs_in.user_acts)
              => bs_in.user_acts \subseteq Fillers

C8_Witness ==
    /\ ReachedDispatch
    /\ bs_in.user_acts = {"Thanks", "Hello", "GiveRating"}
    /\ beliefstate.user_acts = {"GiveRating"}
    /\ branch = "GiveRating"

\* the fixed priority of the meta-acts
C9_Priority ==
    << {"Bad"}, {"Bye"}, {"Thanks"}, {"NewDialogue"}, {"Hello", "SelectDomain"},
       {"GiveRating"}, {"WriteReview"}, {"WrittenReview"}, {"AskDistance"},
       {"InformStartPoint"}, {"InformDistanceManner"}, {"AskOpeningDay"},
       {"AskManner"}, {"NegativeInform"} >>

C9_BranchName(i) ==
    IF i = 5 THEN "HelloSelectDomain"
    ELSE CHOOSE a \in C9_Priority[i] : TRUE

\* C9: the branch taken is that of the first act, in the fixed priority, that is
\* in the action set left by filler suppression; the domain-specific decision
\* is made only when the set holds none of these acts.
C9_FirstMatchWins ==
    ReachedDispatch =>
        LET acts == beliefstate.user_acts
            hit(i) == C9_Priority[i] \cap acts # {}
        IN  /\ \A i \in 1..Len(C9_Priority) :
                  (hit(i) /\ \A j \in 1..(i-1) : ~hit(j)) => branch = C9_BranchName(i)
            /\ (branch = "next_action") <=> (\A i \in 1..Len(C9_Priority) : ~hit(i))

C9_Witness ==
    /\ ReachedDispatch
    /\ beliefstate.user_acts = {"AskManner", "GiveRating", "NegativeInform"}
    /\ branch = "GiveRating"
    /\ sys_act.type = "ConfirmGiveRating"

\* C10: when Hello or SelectDomain is the act handled, the action is
\* RequestMore if every system-requestable slot is constrained, otherwise a
\* Request for the first requestable slot that is not constrained.
C10_HelloAsksOpenSlot ==
    (ReachedDispatch /\ branch \in {"HelloSelectDomain", "HelloOpenSlot"}) =>
        LET open == SelectSeq(SystemRequestableSlots,
                        LAMBDA slot : \A i \in 1..Len(bs_in.informs) :
                            bs_in.informs[i].k = slot => ~Constrains(bs_in.informs[i]))
        IN  IF open = <<>> THEN sys_act.type = "RequestMore"
            ELSE sys_act.type = "Request" /\ Keys(sys_act.slot_values) = <<open[1]>>

\* the per-session fields hold the values dialog_start() gives them
SessionReset ==
    /\ turns = 0
    /\ first_turn
    /\ current_suggestions = <<>>
    /\ s_index = 0

\* C11: after a decision on a belief state whose action set contains NewDialogue
\* the per-session state is reinitialised (turn count 0, first-turn flag true,
\* candidate list empty, cursor 0), in whatever session state the signal arrived.
C11_NewDialogueResets ==
    (Decided /\ "NewDialogue" \in bs_in.user_acts) => SessionReset

C13_FirstTurn ==
    Decided =>
        /\ (pre.first_turn /\ (bs_in.user_acts = {} \/ "NewDialogue" \in bs_in.user_acts))
              => (sys_act.type = "Welcome" /\ raised = "")
        /\ first_turn <=> (branch = "NewDialogue")

C13_Witness ==
    /\ Decided
    /\ pre.first_turn
    /\ "NewDialogue" \in bs_in.user_acts
    /\ sys_act.type = "Welcome"
    /\ ~first_turn
    /\ turns = 1

\* the calls of the decision to the given domain functions
CallsTo(fns) == SelectSeq(calls, LAMBDA c : c.fn \in fns)

\* C14: one decision makes at most one query call and at most one mutation call
\* to the domain, also for a belief state holding both a rating and a review.
C14_OneQueryOneMutation ==
    Decided =>
        /\ Len(CallsTo(QueryFns)) <= 1
        /\ Len(CallsTo(MutationFns)) <= 1

\* C15: every enter_rating or enter_review call of a decision is passed the
\* identifier of the focused entity; a decision in which focus resolution
\* yields none makes no mutation call.
C15_MutationOnFocus ==
    Decided =>
        \A i \in 1..Len(calls) :
            calls[i].fn \in MutationFns =>
                /\ calls[i].id # None
                /\ calls[i].id = get_name(bs_in, pre.suggestions, pre.index).name

\* the informed values of the primary-key slot, as a mapping value -> score
InformedNames ==
    IF HasKey(bs_in.informs, DomainKey) THEN Lookup(bs_in.informs, DomainKey) ELSE <<>>

\* C16: focus resolution returns the highest-confidence informed value of the
\* primary-key slot when there is one; otherwise the identifier of the candidate
\* at the scroll cursor when there is such a candidate; otherwise none.  A
\* primary-key slot present in informs without a value falls through to the
\* candidate at the cursor.
C16_FocusResolution ==
    (Decided /\ branch \in NeedsName) =>
        LET r == get_name(bs_in, pre.suggestions, pre.index)
            names == InformedNames
        IN  /\ ~r.err
            /\ IF names # <<>>
               THEN \E i \in 1..Len(names) :
                        /\ r.name = names[i].k
                        /\ \A j \in 1..Len(names) : names[j].v <= names[i].v
               ELSE IF 0 <= pre.index /\ pre.index < Len(pre.suggestions)
               THEN r.name = Lookup(pre.suggestions[pre.index + 1], DomainKey)
               ELSE r.name = None

\* the constraint mapping the claim describes: every informed slot without a
\* "dontcare" value, with the list of all its informed values (a slot without
\* any value has nothing to list and is not a constraint)
C17_Constraints ==
    LET informed == SelectSeq(bs_in.informs,
                        LAMBDA e : e.v # <<>> /\ \A i \in 1..Len(e.v) : e.v[i].k # "dontcare")
    IN  [i \in 1..Len(informed) |->
            [k |-> informed[i].k,
             v |-> [j \in 1..Len(informed[i].v) |-> informed[i].v[j].k]]]

\* C17: when the decision engine queries the domain it issues one query:
\* find_info_about_entity(focus, requests) when a focused entity exists and the
\* belief state has requests, and find_entities(constraints) otherwise, where
\* constraints maps the informed slots without a "dontcare" value to the list
\* of all their informed values.
C17_QueryConstruction ==
    (Decided /\ branch = "next_action" /\ calls # <<>>) =>
        LET focus == get_name(bs_in, pre.suggestions, pre.index).name
        IN  calls =
              IF focus # None /\ bs_in.requests # <<>>
              THEN <<Call("find_info_about_entity", focus, bs_in.requests, <<>>)>>
              ELSE <<Call("find_entities", None, <<>>, C17_Constraints)>>

C17_Witness ==
    /\ Decided
    /\ branch = "next_action"
    /\ bs_in.informs = FoodTwoValues
    /\ calls = <<Call("find_entities", None, <<>>,
                      <<[k |-> "food", v |-> <<"italian", "chinese">>]>>)>>

\* the focus _next_action resolves for its first guard
C18_Focus == get_name(bs_in, pre.suggestions, pre.index)

\* C18: the decision engine emits Bad, issues no domain query and leaves the
\* candidate list and the cursor unchanged (1) when the belief state has
\* requests and focus resolution yields none, and (2) when RequestAlternatives
\* is in the action set and the constraint mapping is empty.
C18_BadGuards ==
    (/\ Decided
     /\ branch = "next_action"
     /\ \/ bs_in.requests # <<>> /\ ~C18_Focus.err /\ C18_Focus.name = None
        \/ "RequestAlternatives" \in beliefstate.user_acts
              /\ get_constraints(bs_in).slots = <<>>)
    => /\ sys_act.type = "Bad"
       /\ raised = ""
       /\ calls = <<>>
       /\ current_suggestions = pre.suggestions
       /\ s_index = pre.index

\* C19: when neither guard fires, the primary-key slot has an informed value
\* and the belief state has no requests, the decision is InformByName carrying
\* one slot, the primary key, with the highest-confidence informed identifier
\* as its value; no domain query is issued.
C19_FastPath ==
    (/\ Decided
     /\ branch = "next_action"
     /\ InformedNames # <<>>
     /\ bs_in.requests = <<>>
     /\ ~("RequestAlternatives" \in beliefstate.user_acts
            /\ get_constraints(bs_in).slots = <<>>))
    => /\ sys_act.type = "InformByName"
       /\ Keys(sys_act.slot_values) = <<DomainKey>>
       /\ \E i \in 1..Len(InformedNames) :
             /\ ActNames = <<Str(InformedNames[i].k)>>
             /\ \A j \in 1..Len(InformedNames) : InformedNames[j].v <= InformedNames[i].v
       /\ calls = <<>>
       /\ raised = ""

C19_Witness ==
    /\ Decided
    /\ path = "fast_path"
    /\ bs_in.informs = NameInformed
    /\ ActNames = <<Str("A")>>
    /\ pre.suggestions # <<>>

\* the classifier has run on a result of several rows without requests, the
\* case in which it consults the selector
Selected == op = "raw_action" /\ Len(results) > 1 /\ beliefstate.requests = <<>>

\* the requestable slots the selector may ask for: neither constrained nor
\* dontcare
OpenSlots ==
    SelectSeq(SystemRequestableSlots,
        LAMBDA s : \A i \in 1..Len(beliefstate.informs) :
                       beliefstate.informs[i].k = s => beliefstate.informs[i].v = <<>>)

\* the values of a slot across the result rows are not all identical
Discriminates(s) ==
    \E i, j \in 1..Len(results) : Lookup(results[i], s) # Lookup(results[j], s)

NonBinaryOpenSlots ==
    SelectSeq(OpenSlots, LAMBDA s : Len(get_possible_values(s)) # 2)

\* the act is a Request for the given slot
Asks(s) == sys_act.type = "Request" /\ Keys(sys_act.slot_values) = <<s>>

\* C20: among the requestable slots that are neither constrained nor dontcare
\* and do not have exactly two possible values, in the order of the domain, the
\* selector returns the first whose values across the result rows are not all
\* identical; a binary slot is not returned while a non-binary slot
\* discriminates.
C20_NonBinaryFirst ==
    Selected =>
        \A k \in 1..Len(NonBinaryOpenSlots) :
            (/\ Discriminates(NonBinaryOpenSlots[k])
             /\ \A j \in 1..(k-1) : ~Discriminates(NonBinaryOpenSlots[j]))
            => Asks(NonBinaryOpenSlots[k])

C20_Witness ==
    /\ Selected
    /\ beliefstate.informs = NoInforms
    /\ Len(results) = 3
    /\ ~Discriminates("food")
    /\ Discriminates("parking_lot")
    /\ Discriminates("area")
    /\ ~Discriminates("wifi")
    /\ Asks("area")

BinaryOpenSlots ==
    SelectSeq(OpenSlots, LAMBDA s : Len(get_possible_values(s)) = 2)

\* how many result rows have the given value for the slot
RowsWith(s, value) == Cardinality({i \in 1..Len(results) : Lookup(results[i], s) = value})

\* both possible values of a binary slot occur among the result rows
BothValuesOccur(s) ==
    RowsWith(s, get_possible_values(s)[1]) > 0 /\ RowsWith(s, get_possible_values(s)[2]) > 0

\* the absolute difference between the counts of the two values of a binary slot
SplitDifference(s) ==
    Abs(RowsWith(s, get_possible_values(s)[1]) - RowsWith(s, get_possible_values(s)[2]))

NoNonBinaryDiscriminates ==
    \A k \in 1..Len(NonBinaryOpenSlots) : ~Discriminates(NonBinaryOpenSlots[k])

\* C21: when no non-binary slot discriminates, the selector returns the binary
\* slot with the smallest absolute difference between the counts of its two
\* values across the result rows, the earliest in requestable-slot order on a
\* tie; a binary slot one of whose values does not occur among the rows is
\* never returned.
C21_BinaryPhase ==
    (Selected /\ NoNonBinaryDiscriminates) =>
        /\ \A k \in 1..Len(BinaryOpenSlots) :
              (/\ BothValuesOccur(BinaryOpenSlots[k])
               /\ \A j \in 1..Len(BinaryOpenSlots) :
                     BothValuesOccur(BinaryOpenSlots[j]) =>
                         /\ SplitDifference(BinaryOpenSlots[k])
                               <= SplitDifference(BinaryOpenSlots[j])
                         /\ j < k => SplitDifference(BinaryOpenSlots[k])
                                        < SplitDifference(BinaryOpenSlots[j]))
              => Asks(BinaryOpenSlots[k])
        /\ \A k \in 1..Len(BinaryOpenSlots) :
              Asks(BinaryOpenSlots[k]) => BothValuesOccur(BinaryOpenSlots[k])

C21_Witness ==
    /\ Selected
    /\ NoNonBinaryDiscriminates
    /\ beliefstate.informs = NoInforms
    /\ Len(results) = 4
    /\ RowsWith("parking_lot", "0") = 3
    /\ RowsWith("wifi", "0") = 2
    /\ Asks("wifi")

\* C22: when the query returned more than one row, no non-binary slot
\* discriminates and no binary slot has both of its values among the rows, the
\* selector has no question and the decision is an inform, not a Request.
C22_NoQuestion ==
    (/\ Selected
     /\ NoNonBinaryDiscriminates
     /\ \A k \in 1..Len(BinaryOpenSlots) : ~BothValuesOccur(BinaryOpenSlots[k]))
    => /\ sys_act.type = "InformByName"
       /\ sys_act.slot_values = <<>>

C22_Witness ==
    /\ Selected
    /\ beliefstate.informs = NoInforms
    /\ Len(results) = 3
    /\ \A k \in 1..Len(OpenSlots) : ~Discriminates(OpenSlots[k])
    /\ sys_act.type = "InformByName"

\* the inform builder has run in by-primary-key mode
ByPrimkey == op = "convert_inform" /\ path = "by_primkey" /\ raised = ""

\* a value of a result row that is missing, empty or null
NotAvailable(value) == value \in {"", None, "None"}

\* attribute i of the first result row is a slot of the act, with the value
\* "not available" when the row has no value for it
C23_Carried(i) ==
    /\ HasKey(sys_act.slot_values, results[1][i].k)
    /\ NotAvailable(results[1][i].v) =>
          get_values(sys_act, results[1][i].k) = <<Str("not available")>>

\* C23 as stated: in a by-primary-key inform every attribute of the result row
\* without a value appears as a slot with the value "not available", and no
\* attribute of the row is left out of the action, however many the row has.
C23_NoAttributeLeftOut ==
    (ByPrimkey /\ results # <<>>) =>
        \A i \in 1..Len(results[1]) : C23_Carried(i)

\* the first four keys of the first result row, or all of them when it has fewer
FirstKeys ==
    [i \in 1..(IF Len(results[1]) < 4 THEN Len(results[1]) ELSE 4) |-> results[1][i].k]

\* the identifier the decision resolved the focus to, as it was sent to the domain
FocusIdentifier == calls[1].id

EmptyOffer ==
    Decided /\ raised = "" /\ path = "by_constraints" /\ results = <<>>

\* C24: a by-constraints inform built from a query that returned zero rows is an
\* InformByName whose identifier slot is "none", followed by one slot per user
\* constraint holding the list of all values of that constraint.
C24_NoneWithConstraints ==
    EmptyOffer =>
        /\ sys_act.type = "InformByName"
        /\ sys_act.slot_values =
              <<[k |-> DomainKey, v |-> <<Str("none")>>]>> \o
              [i \in 1..Len(C17_Constraints) |->
                  [k |-> C17_Constraints[i].k, v |-> <<Lst(C17_Constraints[i].v)>>]]

C24_Witness ==
    /\ EmptyOffer
    /\ \E i \in 1..Len(C17_Constraints) : Len(C17_Constraints[i].v) > 1
    /\ get_values(sys_act, DomainKey) = <<Str("none")>>

\* C25 as stated: after every by-constraints inform the cached candidate list
\* is the result set of the query of that decision and the cursor is 0, also
\* when that result set is empty.
C25_CacheIsResultSet ==
    (Decided /\ raised = "" /\ path = "by_constraints") =>
        /\ current_suggestions = results
        /\ s_index = 0

\* the names of the rows the query of the decision returned
ResultNames == {Lookup(results[i], DomainKey) : i \in 1..Len(results)}

\* C26 as stated: the candidate an alternatives-mode inform carries is a row of
\* the result set of the query issued in the same decision, also when the
\* constraints changed since the list was cached.
C26_CandidateFromQuery ==
    (Decided /\ raised = "" /\ path = "by_alternatives"
        /\ get_values(sys_act, DomainKey) # <<Str("none")>>) =>
        \E n \in ResultNames : get_values(sys_act, DomainKey) = <<Str(n)>>

\* the decision took the InformDistanceManner branch
DistanceTurn == Decided /\ branch = "InformDistanceManner"

\* the act carries exactly this value in the slot
Carries(slot, value) == get_values(sys_act, slot) = <<Str(value)>>

\* C28 as stated: an InformDistanceManner turn ends without an error, and the
\* pair the distance lookup answered decides the act: the pair of two
\* "BadTravelManner" gives BadTravelManner, the pair of two nulls gives
\* BadAddress, every other pair gives InformDistance carrying the identifier,
\* the travel manner, the distance and the duration.
C28_DistanceOutcome ==
    DistanceTurn =>
        /\ raised = ""
        /\ IF distance_duration = <<"BadTravelManner", "BadTravelManner">>
           THEN sys_act.type = "BadTravelManner"
           ELSE IF distance_duration = <<None, None>>
           THEN sys_act.type = "BadAddress"
           ELSE /\ sys_act.type = "InformDistance"
                /\ \E n \in {"A", "B", "C"} : Carries(DomainKey, n)
                /\ Carries("distance_manner", bs_in.distance_manner)
                /\ Carries("distance", distance_duration[1])
                /\ Carries("duration", distance_duration[2])

\* the slots for which the user gave the value "dontcare"
DontcareSlots ==
    {bs_in.informs[i].k : i \in {j \in 1..Len(bs_in.informs) :
                                    InSeq("dontcare", Keys(bs_in.informs[j].v))}}

\* the slots the user constrained to one or more values
ConstrainedSlots ==
    {bs_in.informs[i].k : i \in {j \in 1..Len(bs_in.informs) :
                                    bs_in.informs[j].v # <<>>}} \ DontcareSlots

\* the decision ended with a question of the next-question selector
SelectorRequest == Decided /\ raised = "" /\ path = "request"

\* C29: a slot with the value "dontcare" is not a key of the constraints sent
\* to find_entities and is not the slot of a Request of the selector; a slot
\* the user constrained is not the slot of such a Request either.
C29_DontcareExcluded ==
    Decided =>
        /\ \A i \in 1..Len(calls) :
              calls[i].fn = "find_entities" =>
                  \A j \in 1..Len(calls[i].constraints) :
                      calls[i].constraints[j].k \notin DontcareSlots
        /\ SelectorRequest =>
              \A k \in 1..Len(sys_act.slot_values) :
                  sys_act.slot_values[k].k \notin DontcareSlots \cup ConstrainedSlots

C29_Witness ==
    /\ SelectorRequest
    /\ DontcareSlots = {"wifi"}
    /\ ConstrainedSlots = {"food"}
    /\ calls = <<Call("find_entities", None, <<>>, <<[k |-> "food", v |-> <<"italian">>]>>)>>
    /\ Asks("parking_lot")

\* the engine has classified the result of its query
QueryAnswered == op = "raw_action" \/ (Decided /\ raised = "" /\ calls # <<>>
                                        /\ branch = "next_action")

\* C30: the engine answers a query with a Request only when the query returned
\* more than one row and the belief state has no requests; with zero or one
\* row, or with a request, the answer is an inform, also when the user asked
\* for alternatives.
C30_RequestOnlyToNarrow ==
    QueryAnswered =>
        /\ sys_act.type = "Request" =>
              Len(results) > 1 /\ beliefstate.requests = <<>>
        /\ (Len(results) <= 1 \/ beliefstate.requests # <<>>) =>
              sys_act.type \in {"InformByName", "InformByAlternatives"}

C30_Witness ==
    /\ QueryAnswered
    /\ "RequestAlternatives" \in beliefstate.user_acts
    /\ Len(results) = 1
    /\ sys_act.type = "InformByName"

\* C31 as stated: focus resolution never reads the candidate list outside
\* [0, len-1]: whenever the cursor passes the test of _get_name
\* (s_index < len) it is a position of the list, so that with an empty list and
\* no informed name the focus is none and no decision ends in an IndexError,
\* also after an alternatives request whose query returned no row.
C31_FocusReadInRange ==
    /\ s_index < Len(current_suggestions) => 0 <= s_index
    /\ ~get_name(EmptyBS, current_suggestions, s_index).err
    /\ raised # "IndexError"

\* the decision is one of those that write the candidate list or the cursor: a
\* by-constraints inform, an alternatives-mode inform, a NewDialogue reset
WritesCandidates ==
    path \in {"by_constraints", "by_alternatives"} \/ branch = "NewDialogue"

Stored(cls) ==
    LET kept == SelectSeq(added, LAMBDA a : a.raised = "" /\ a.command.class = cls)
    IN  [i \in 1..Len(kept) |-> kept[i].command]

\* a SpecialCaseException was handed in by a call before call i
ExceptionBefore(i) ==
    \E j \in 1..(i - 1) : added[j].command.class = "SpecialCaseException"

\* C33: over any sequence of calls of add_inner_command, a call is rejected
\* with ValueError exactly when it hands in a Message after a
\* SpecialCaseException was added, or a command of none of the three classes;
\* the three lists hold the accepted commands of their class in call order, so
\* a rejected call changes none of them; and every stored Message was added
\* before the first SpecialCaseException.
C33_OrderRule ==
    /\ \A i \in 1..Len(added) :
          added[i].raised =
              IF \/ added[i].command.class = "Message" /\ ExceptionBefore(i)
                 \/ added[i].command.class = "Command"
              THEN "ValueError" ELSE ""
    /\ template = [messages |-> Stored("Message"),
                   special_cases |-> Stored("SpecialCaseException"),
                   additions |-> Stored("SpecialCaseAddition")]
    /\ \A i \in 1..Len(added) :
          (added[i].raised = "" /\ added[i].command.class = "Message") =>
              ~ExceptionBefore(i)

C33_Witness ==
    /\ Len(added) = 4
    /\ added[1].command.class = "SpecialCaseAddition"
    /\ added[2].command.class = "Message" /\ added[2].raised = ""
    /\ added[3].command.class = "SpecialCaseException"
    /\ added[4].command.class = "Message" /\ added[4].raised = "ValueError"
    /\ Len(template.messages) = 1
    /\ Len(template.special_cases) = 1
    /\ Len(template.additions) = 1

====
